---------------------------- MODULE Spec2Model ----------------------------
(***************************************************************************)
(* Model of the NEAR balance checker page component (app/page.tsx, kept as *)
(* src/unnamed/part_000): the identifier validator, the request lifecycle  *)
(* of handleFetchBalance (cancellation token, timeout race, supersession,  *)
(* teardown), the conversion of raw yoctoNEAR amounts and the error        *)
(* classifier.                                                             *)
(*                                                                         *)
(* JavaScript strings are TLA+ strings; a character is a string of length  *)
(* one, read with SubSeq.  A nullable value is a sequence of length zero   *)
(* (null / undefined) or one.                                              *)
(*                                                                         *)
(* The event loop is single-threaded: an action is one macrotask together  *)
(* with the promise continuations (microtasks) it triggers, which run to   *)
(* completion before the next timer, network answer or user event.         *)
(***************************************************************************)
EXTENDS Integers, Sequences, FiniteSets, TLC

VARIABLES
    accountId,          \* useState(''): the text of the input field
    balanceData,        \* useState<BalanceData | null>(null)
    fetchedAccountId,   \* useState<string | null>(null)
    loading,            \* useState(false)
    error,              \* useState<string | null>(null)
    abortControllerRef, \* useRef<AbortController | null>: 0 or an index of reqs
    mounted,            \* FALSE once the effect cleanup has run
    reqs,               \* one record per valid invocation of handleFetchBalance
    probe               \* inputs and result of the pure-function specifications

vars == <<accountId, balanceData, fetchedAccountId, loading, error,
          abortControllerRef, mounted, reqs, probe>>

display == <<balanceData, fetchedAccountId, error, loading>>

-----------------------------------------------------------------------------
(* Bounds of the model *)

\* valid submissions (requests created) in one behaviour
MaxRequests == 2
\* pieces concatenated into an input of the validator specification
MaxPieces == 4
\* digits of the repeated-digit raw amounts of the conversion specification
MaxDigits == 25

-----------------------------------------------------------------------------
(* Nullable values and strings *)

None == <<>>
Some(x) == <<x>>

CharAt(s, i) == SubSeq(s, i, i)

LowerAlpha == "abcdefghijklmnopqrstuvwxyz"
UpperAlpha == "ABCDEFGHIJKLMNOPQRSTUVWXYZ"
DecDigits == "0123456789"

CharsOf(s) == { CharAt(s, i) : i \in 1..Len(s) }

IndexIn(c, s) == CHOOSE i \in 1..Len(s) : CharAt(s, i) = c

LowerChars == CharsOf(LowerAlpha)
UpperChars == CharsOf(UpperAlpha)
DigitChars == CharsOf(DecDigits)

LowerOf == [c \in UpperChars |-> CharAt(LowerAlpha, IndexIn(c, UpperAlpha))]
UpperOf == [c \in LowerChars |-> CharAt(UpperAlpha, IndexIn(c, LowerAlpha))]

\* String.prototype.toLowerCase on one ASCII character
LowerChar(c) == IF c \in UpperChars THEN LowerOf[c] ELSE c

\* String.prototype.toUpperCase on one ASCII character
UpperChar(c) == IF c \in LowerChars THEN UpperOf[c] ELSE c

RECURSIVE MapChars(_, _, _)
MapChars(s, i, up) ==
    IF i > Len(s) THEN ""
    ELSE (IF up THEN UpperChar(CharAt(s, i)) ELSE LowerChar(CharAt(s, i)))
         \o MapChars(s, i + 1, up)

ToUpperCase(s) == MapChars(s, 1, TRUE)
ToLowerCase(s) == MapChars(s, 1, FALSE)

WhiteSpace == {" ", "\t", "\n", "\r"}

RECURSIVE TrimStart(_)
TrimStart(s) ==
    IF Len(s) > 0 /\ CharAt(s, 1) \in WhiteSpace
    THEN TrimStart(SubSeq(s, 2, Len(s))) ELSE s

RECURSIVE TrimEnd(_)
TrimEnd(s) ==
    IF Len(s) > 0 /\ CharAt(s, Len(s)) \in WhiteSpace
    THEN TrimEnd(SubSeq(s, 1, Len(s) - 1)) ELSE s

\* String.prototype.trim
Trim(s) == TrimEnd(TrimStart(s))

\* String.prototype.includes
Includes(s, sub) ==
    \E i \in 0..(Len(s) - Len(sub)) : SubSeq(s, i + 1, i + Len(sub)) = sub

-----------------------------------------------------------------------------
(* Identifier validator *)

\* a plausible slip: the patterns without their i flag
CaseSensitive(c) == c

\* the i flag of the three patterns: a character matches a class or a
\* literal when its lower-case form does
IgnoreCase(c) == LowerChar(c)

\* a literal of a pattern, under the i flag
MatchLiteral(s, literal) ==
    /\ Len(s) = Len(literal)
    /\ \A i \in 1..Len(s) : IgnoreCase(CharAt(s, i)) = CharAt(literal, i)

HexClass == DigitChars \cup CharsOf("abcdef")
LabelClass == LowerChars \cup DigitChars \cup {"_", "-"}

\* [0-9a-f] under the i flag
HexChar(c) == IgnoreCase(c) \in HexClass

\* [a-z0-9_-] under the i flag
LabelChar(c) == IgnoreCase(c) \in LabelClass

\* /^[0-9a-f]{64}$/i
IMPLICIT_ADDRESS_REGEX(s) ==
    /\ Len(s) = 64
    /\ \A i \in 1..Len(s) : HexChar(CharAt(s, i))

\* [a-z0-9_-]+(\.[a-z0-9_-]+)* : non-empty, label characters and dots only,
\* no dot first or last, no two dots in a row
LabelsMatch(s) ==
    /\ Len(s) > 0
    /\ \A i \in 1..Len(s) : LabelChar(CharAt(s, i)) \/ CharAt(s, i) = "."
    /\ CharAt(s, 1) # "."
    /\ CharAt(s, Len(s)) # "."
    /\ \A i \in 1..(Len(s) - 1) : ~(CharAt(s, i) = "." /\ CharAt(s, i + 1) = ".")

\* \.(near|testnet)$ under the i flag
SuffixMatch(s) == MatchLiteral(s, ".near") \/ MatchLiteral(s, ".testnet")

\* /^[a-z0-9_-]+(\.[a-z0-9_-]+)*\.(near|testnet)$/i
NAMED_ADDRESS_REGEX(s) ==
    \E k \in 1..Len(s) :
        /\ SuffixMatch(SubSeq(s, k + 1, Len(s)))
        /\ LabelsMatch(SubSeq(s, 1, k))

\* a plausible slip: the pattern without its closing anchor, /^0x[0-9a-f]{40}/i
EthereumNoEndAnchor(s) ==
    /\ Len(s) >= 42
    /\ MatchLiteral(SubSeq(s, 1, 2), "0x")
    /\ \A i \in 3..42 : HexChar(CharAt(s, i))

\* /^0x[0-9a-f]{40}$/i
ETHEREUM_LIKE_REGEX(s) ==
    /\ Len(s) = 42
    /\ MatchLiteral(SubSeq(s, 1, 2), "0x")
    /\ \A i \in 3..Len(s) : HexChar(CharAt(s, i))

MsgEmptyId == "Please enter a NEAR account ID."
MsgInvalidId == "Please enter a valid NEAR account ID (implicit address, named address like alice.near, or Ethereum-like address like 0x...)."

\* validateAccountId: null (None) when the identifier is accepted
validateAccountId(id) ==
    LET trimmed == Trim(id) IN
    IF trimmed = "" THEN Some(MsgEmptyId)
    ELSE IF IMPLICIT_ADDRESS_REGEX(trimmed) THEN None
    ELSE IF NAMED_ADDRESS_REGEX(trimmed) THEN None
    ELSE IF ETHEREUM_LIKE_REGEX(trimmed) THEN None
    ELSE Some(MsgInvalidId)

-----------------------------------------------------------------------------
(* Arbitrary-precision integers: BigInt values are sequences of decimal    *)
(* digits, most significant first, without leading zeros (zero is <<0>>).  *)

DigitValue == [c \in DigitChars |-> IndexIn(c, DecDigits) - 1]
DigitVal(c) == DigitValue[c]

RECURSIVE StripZeros(_)
StripZeros(x) ==
    IF Len(x) > 1 /\ x[1] = 0 THEN StripZeros(Tail(x)) ELSE x

\* BigInt(string) of a decimal digit string
BigInt(str) ==
    IF str = "" THEN <<0>>
    ELSE StripZeros([i \in 1..Len(str) |-> DigitVal(CharAt(str, i))])

Front(x) == SubSeq(x, 1, Len(x) - 1)

RECURSIVE AddDigits(_, _, _)
AddDigits(x, y, carry) ==
    IF x = <<>> /\ y = <<>>
    THEN (IF carry = 0 THEN <<>> ELSE <<carry>>)
    ELSE LET dx == IF x = <<>> THEN 0 ELSE x[Len(x)]
             dy == IF y = <<>> THEN 0 ELSE y[Len(y)]
             t  == dx + dy + carry
         IN AddDigits(IF x = <<>> THEN x ELSE Front(x),
                      IF y = <<>> THEN y ELSE Front(y),
                      t \div 10) \o <<t % 10>>

\* the + of two BigInt values
BigAdd(x, y) == StripZeros(AddDigits(x, y, 0))

RECURSIVE BigIntToString(_)
\* BigInt.prototype.toString
BigIntToString(x) ==
    IF x = <<>> THEN ""
    ELSE CharAt(DecDigits, x[1] + 1) \o BigIntToString(Tail(x))

-----------------------------------------------------------------------------
(* Conversion of the two raw yoctoNEAR amounts into the balance record *)

\* utils.format.formatNearAmount(balance, fracDigits) of near-api-js: a call
\* of the library, kept as the uninterpreted term of its two arguments
formatNearAmount(balance, fracDigits) ==
    [fn |-> "formatNearAmount", balance |-> balance, fracDigits |-> fracDigits]

\* a plausible slip: the two decimal strings joined by the string +
totalYoctoConcat(availableBalance, stakedBalance) ==
    BigInt(availableBalance \o stakedBalance)

\* const totalYocto = BigInt(availableBalance) + BigInt(stakedBalance)
totalYocto(availableBalance, stakedBalance) ==
    BigAdd(BigInt(availableBalance), BigInt(stakedBalance))

\* the value the fetch promise resolves with
BalanceRecord(availableBalance, stakedBalance) ==
    [available |-> formatNearAmount(availableBalance, 4),
     staked    |-> formatNearAmount(stakedBalance, 4),
     total     |-> formatNearAmount(
                       BigIntToString(totalYocto(availableBalance, stakedBalance)), 4)]

-----------------------------------------------------------------------------
(* Errors and the error classifier *)

Error(message) == [message |-> Some(message), type |-> None]
TypedError(message, type) == [message |-> Some(message), type |-> Some(type)]

TimeoutErrorMessage == "Request timed out. Please try again."
CancelledErrorMessage == "Request cancelled"

MsgDefault == "An error occurred while fetching the balance."
MsgTimeout == "Request timed out. The network may be slow. Please try again."
MsgExhausted == "All RPC providers failed. The NEAR network may be experiencing issues. Please try again later."
MsgNetwork == "Network error. Please check your connection and try again."
MsgAccountDoesNotExist(trimmedAccountId) ==
    "Account \"" \o trimmedAccountId \o "\" does not exist on NEAR mainnet."
MsgOther(message) == "Error: " \o message

\* error.message?.includes(sub)
MessageIncludes(e, sub) == e.message # None /\ Includes(e.message[1], sub)

\* a plausible slip: the row of the exhausted providers is missing
IsExhaustedNever(e) == FALSE

\* error.message?.includes('Exceeded 3 providers') || error.message?.includes('Exceeded')
IsExhausted(e) ==
    MessageIncludes(e, "Exceeded 3 providers") \/ MessageIncludes(e, "Exceeded")

\* a plausible slip: the network row tested before the exhausted-providers row
ClassifyNetworkFirst(e, trimmedAccountId) ==
    IF e.message = Some(TimeoutErrorMessage) THEN MsgTimeout
    ELSE IF e.type = Some("AccountDoesNotExist")
         THEN MsgAccountDoesNotExist(trimmedAccountId)
    ELSE IF MessageIncludes(e, "network") \/ MessageIncludes(e, "fetch") THEN MsgNetwork
    ELSE IF IsExhausted(e) THEN MsgExhausted
    ELSE IF e.message # None /\ e.message[1] # "" THEN MsgOther(e.message[1])
    ELSE MsgDefault

\* the if / else-if chain of the catch block
ClassifyError(e, trimmedAccountId) ==
    IF e.message = Some(TimeoutErrorMessage) THEN MsgTimeout
    ELSE IF e.type = Some("AccountDoesNotExist")
         THEN MsgAccountDoesNotExist(trimmedAccountId)
    ELSE IF IsExhausted(e) THEN MsgExhausted
    ELSE IF MessageIncludes(e, "network") \/ MessageIncludes(e, "fetch") THEN MsgNetwork
    ELSE IF e.message # None /\ e.message[1] # "" THEN MsgOther(e.message[1])
    ELSE MsgDefault

-----------------------------------------------------------------------------
(* The environment: what the user types and what the network answers *)

\* values the input field is set to
Inputs == {"alice.near", " Bob.testnet ", "not_a_valid_id!!"}

\* the raw amount getAccountBalance() answers with in the lifecycle
\* specification (a decimal string, in yoctoNEAR): 1 NEAR
LiquidAmounts == {"1000000000000000000000000"}

\* the raw amount getActiveDelegatedStakeBalance() answers with: 0.5 NEAR
StakedAmounts == {"500000000000000000000000"}

\* raw amounts a sub-query answers with; SpecConvert draws from more
Amounts == LiquidAmounts \cup StakedAmounts

\* failures the near-api-js calls reject with
ErrAccountDoesNotExist ==
    TypedError("account does not exist while viewing", "AccountDoesNotExist")
ErrProvidersExhausted ==
    TypedError("Exceeded 3 providers to execute request", "RetriesExceeded")
ErrNetwork == Error("Failed to fetch")
ErrOther == Error("Unexpected end of JSON input")
ErrNoMessage == [message |-> None, type |-> None]

\* the failures the lifecycle specification draws from
Failures == {ErrAccountDoesNotExist, ErrProvidersExhausted, ErrNetwork}

-----------------------------------------------------------------------------
(* Requests: one record per run of handleFetchBalance past the validation. *)
(*   aborted   abortController.signal.aborted                              *)
(*   timer     the setTimeout handle: pending, fired or cleared            *)
(*   fetch     where fetchPromise stands: awaiting connect / near.account  *)
(*             (connect), awaiting Promise.all (join), resolved, rejected  *)
(*             with a failure of the network calls, or cancelled (rejected *)
(*             with Error('Request cancelled') at a checkpoint)            *)
(*   thrownAt  the line of the checkpoint that threw (138 or 149), else 0  *)
(*   liquid, staked   the two sub-queries while the fetch awaits them:     *)
(*             idle, pending or ok; they are local to the fetch and are    *)
(*             dropped (idle) once it has settled                          *)
(*   handler   race while handleFetchBalance awaits Promise.race, then done*)
(*   state     the lifecycle state the run is in: Running, then Succeeded  *)
(*             (line 189 reached), Failed or TimedOut (line 220 reached),  *)
(*             or Cancelled (the signal was aborted while Running)         *)

\* const REQUEST_TIMEOUT = 30000
REQUEST_TIMEOUT == 30000

\* the request a valid submission creates: controller, first checkpoint
\* passed (the new signal is not aborted), connect() called, timer started
NewRequest(trimmedAccountId) ==
    [trimmedAccountId |-> trimmedAccountId,
     aborted          |-> FALSE,
     timer            |-> "pending",
     timeoutMs        |-> REQUEST_TIMEOUT,
     fetch            |-> "connect",
     thrownAt         |-> 0,
     liquid           |-> "idle",
     staked           |-> "idle",
     liquidBalance    |-> None,
     stakedBalance    |-> None,
     handler          |-> "race",
     state            |-> "Running"]

\* AbortController.prototype.abort
Abort(rq) ==
    [rq EXCEPT !.aborted = TRUE,
               !.state = IF rq.state = "Running" THEN "Cancelled" ELSE rq.state]

\* a plausible slip: the in-flight request is not cancelled
KeepPrevious(rs, ref) == rs

\* if (abortControllerRef.current) abortControllerRef.current.abort()
AbortCurrent(rs, ref) ==
    IF ref # 0 THEN [rs EXCEPT ![ref] = Abort(rs[ref])] ELSE rs

\* a plausible slip: the validation result is ignored
NeverFails(validationError) == FALSE

\* if (validationError) { setError(validationError); return; }
ValidationFails(validationError) == validationError # None

\* a plausible slip: a late result of the fetch is still handled
RaceNeverSettled(rq) == FALSE

\* Promise.race settles once: with the timer's rejection or the fetch's result
RaceSettled(rq) == rq.handler # "race"

\* a plausible slip: the check after completion is missing
NotChecked(rq) == FALSE

\* if (abortController.signal.aborted) return;   (after the race, line 185)
AbortedAfterCompletion(rq) == rq.aborted

\* if (abortController.signal.aborted) return;   (in the catch block, line 199)
AbortedInCatch(rq) == rq.aborted

\* a plausible slip: setLoading(false) without its guard in the finally block
FinallyUnguarded(rq) == FALSE

\* if (!abortController.signal.aborted) setLoading(false);   (finally block)
AbortedInFinally(rq) == rq.aborted

\* if (timeoutId) { clearTimeout(timeoutId); timeoutId = null; }
ClearTimeout(timer) == IF timer = "pending" THEN "cleared" ELSE timer

\* handleFetchBalance after Promise.race: the lines after the await, then finally
Continue(r, rq, result) ==
    IF RaceSettled(rq)
    THEN /\ reqs' = [reqs EXCEPT ![r] = rq]
         /\ UNCHANGED display
    ELSE /\ reqs' = [reqs EXCEPT ![r] =
                [rq EXCEPT !.handler = "done",
                           !.timer = ClearTimeout(rq.timer),
                           !.state = IF rq.state = "Running" THEN "Succeeded"
                                     ELSE rq.state]]
         /\ IF AbortedAfterCompletion(rq)
            THEN UNCHANGED <<balanceData, fetchedAccountId>>
            ELSE /\ balanceData' = Some(result)
                 /\ fetchedAccountId' = Some(rq.trimmedAccountId)
         /\ loading' = IF AbortedInFinally(rq) THEN loading ELSE FALSE
         /\ UNCHANGED error

\* handleFetchBalance after Promise.race rejected: the catch block, then finally
Catch(r, rq, e, byTimer) ==
    IF RaceSettled(rq)
    THEN /\ reqs' = [reqs EXCEPT ![r] = rq]
         /\ UNCHANGED display
    ELSE /\ reqs' = [reqs EXCEPT ![r] =
                [rq EXCEPT !.handler = "done",
                           !.timer = ClearTimeout(rq.timer),
                           !.state = IF rq.state # "Running" THEN rq.state
                                     ELSE IF byTimer THEN "TimedOut" ELSE "Failed"]]
         /\ error' = IF AbortedInCatch(rq) THEN error
                     ELSE Some(ClassifyError(e, rq.trimmedAccountId))
         /\ loading' = IF AbortedInFinally(rq) THEN loading ELSE FALSE
         /\ UNCHANGED <<balanceData, fetchedAccountId>>

\* the locals of the fetch are gone once fetchPromise has settled
Settled(rq, how) ==
    [rq EXCEPT !.fetch = how, !.liquid = "idle", !.staked = "idle",
               !.liquidBalance = None, !.stakedBalance = None]

\* fetchPromise rejects with e, a failure of a network call
FetchRejects(r, rq, e) == Catch(r, Settled(rq, "rejected"), e, FALSE)

\* fetchPromise rejects with the error a checkpoint throws
FetchCancelled(r, rq) ==
    Catch(r, Settled(rq, "cancelled"), Error(CancelledErrorMessage), FALSE)

\* fetchPromise resolves with the balance record
FetchResolves(r, rq) ==
    Continue(r, Settled(rq, "resolved"),
             BalanceRecord(rq.liquidBalance[1], rq.stakedBalance[1]))

\* a plausible slip: the checkpoints are missing
CheckpointMissing(rq) == FALSE

\* if (abortController.signal.aborted) throw new Error('Request cancelled')
\* (line 138: before the sub-queries; line 149: after the join)
Checkpoint(rq) == rq.aborted

-----------------------------------------------------------------------------
(* Actions *)

Init ==
    /\ accountId = ""
    /\ balanceData = None
    /\ fetchedAccountId = None
    /\ loading = FALSE
    /\ error = None
    /\ abortControllerRef = 0
    /\ mounted = TRUE
    /\ reqs = <<>>
    /\ probe = None

\* handleInputChange: the input field is set to value
HandleInputChange(value) ==
    /\ mounted
    /\ accountId' = value
    /\ error' = IF error # None THEN None ELSE error
    /\ UNCHANGED <<balanceData, fetchedAccountId, loading, abortControllerRef,
                   mounted, reqs, probe>>

\* a plausible slip: the previous result is not cleared when a request starts
\* (setBalanceData(null) and setFetchedAccountId(null) left out)
HandleFetchBalanceKeepsResult ==
    /\ mounted
    /\ LET validationError == validateAccountId(accountId) IN
       IF ValidationFails(validationError)
       THEN /\ error' = validationError
            /\ UNCHANGED <<accountId, balanceData, fetchedAccountId, loading,
                           abortControllerRef, mounted, reqs, probe>>
       ELSE /\ Len(reqs) < MaxRequests
            /\ reqs' = Append(AbortCurrent(reqs, abortControllerRef),
                              NewRequest(Trim(accountId)))
            /\ abortControllerRef' = Len(reqs) + 1
            /\ loading' = TRUE
            /\ error' = None
            /\ UNCHANGED <<accountId, balanceData, fetchedAccountId, mounted, probe>>

\* a plausible slip: the in-flight request is cancelled before the validation
HandleFetchBalanceAbortsFirst ==
    /\ mounted
    /\ LET validationError == validateAccountId(accountId) IN
       IF ValidationFails(validationError)
       THEN /\ error' = validationError
            /\ reqs' = AbortCurrent(reqs, abortControllerRef)
            /\ UNCHANGED <<accountId, balanceData, fetchedAccountId, loading,
                           abortControllerRef, mounted, probe>>
       ELSE /\ Len(reqs) < MaxRequests
            /\ reqs' = Append(AbortCurrent(reqs, abortControllerRef),
                              NewRequest(Trim(accountId)))
            /\ abortControllerRef' = Len(reqs) + 1
            /\ loading' = TRUE
            /\ error' = None
            /\ balanceData' = None
            /\ fetchedAccountId' = None
            /\ UNCHANGED <<accountId, mounted, probe>>

\* handleFetchBalance up to its await of Promise.race
HandleFetchBalance ==
    /\ mounted
    /\ LET validationError == validateAccountId(accountId) IN
       IF ValidationFails(validationError)
       THEN /\ error' = validationError
            /\ UNCHANGED <<accountId, balanceData, fetchedAccountId, loading,
                           abortControllerRef, mounted, reqs, probe>>
       ELSE /\ Len(reqs) < MaxRequests
            /\ reqs' = Append(AbortCurrent(reqs, abortControllerRef),
                              NewRequest(Trim(accountId)))
            /\ abortControllerRef' = Len(reqs) + 1
            /\ loading' = TRUE
            /\ error' = None
            /\ balanceData' = None
            /\ fetchedAccountId' = None
            /\ UNCHANGED <<accountId, mounted, probe>>

\* the cleanup of the mount effect
Unmount ==
    /\ mounted
    /\ mounted' = FALSE
    /\ reqs' = AbortCurrent(reqs, abortControllerRef)
    /\ UNCHANGED <<accountId, balanceData, fetchedAccountId, loading, error,
                   abortControllerRef, probe>>

\* connect() and near.account() have resolved: second checkpoint, then the
\* two sub-queries are launched
ConnectResolve(r) ==
    /\ reqs[r].fetch = "connect"
    /\ IF Checkpoint(reqs[r])
       THEN FetchCancelled(r, [reqs[r] EXCEPT !.thrownAt = 138])
       ELSE /\ reqs' = [reqs EXCEPT ![r].fetch = "join",
                                    ![r].liquid = "pending",
                                    ![r].staked = "pending"]
            /\ UNCHANGED display
    /\ UNCHANGED <<accountId, abortControllerRef, mounted, probe>>

\* connect() or near.account() rejects with e
ConnectReject(r, e) ==
    /\ reqs[r].fetch = "connect"
    /\ FetchRejects(r, reqs[r], e)
    /\ UNCHANGED <<accountId, abortControllerRef, mounted, probe>>

\* a plausible slip: Promise.race in the place of Promise.all, a missing
\* amount read as 0
JoinRace(r, rq) ==
    IF rq.liquid = "ok" \/ rq.staked = "ok"
    THEN IF Checkpoint(rq) THEN FetchCancelled(r, [rq EXCEPT !.thrownAt = 149])
         ELSE Continue(r, Settled(rq, "resolved"),
                  BalanceRecord(
                      IF rq.liquidBalance = None THEN "0" ELSE rq.liquidBalance[1],
                      IF rq.stakedBalance = None THEN "0" ELSE rq.stakedBalance[1]))
    ELSE /\ reqs' = [reqs EXCEPT ![r] = rq]
         /\ UNCHANGED display

\* Promise.all has both values: third checkpoint, conversion, return
Join(r, rq) ==
    IF rq.liquid = "ok" /\ rq.staked = "ok"
    THEN IF Checkpoint(rq) THEN FetchCancelled(r, [rq EXCEPT !.thrownAt = 149])
         ELSE FetchResolves(r, rq)
    ELSE /\ reqs' = [reqs EXCEPT ![r] = rq]
         /\ UNCHANGED display

\* account.getAccountBalance() resolves with { available: amount }
LiquidResolve(r, amount) ==
    /\ reqs[r].liquid = "pending"
    /\ Join(r, [reqs[r] EXCEPT !.liquid = "ok", !.liquidBalance = Some(amount)])
    /\ UNCHANGED <<accountId, abortControllerRef, mounted, probe>>

\* account.getAccountBalance() rejects with e: Promise.all rejects with it
LiquidReject(r, e) ==
    /\ reqs[r].liquid = "pending"
    /\ FetchRejects(r, reqs[r], e)
    /\ UNCHANGED <<accountId, abortControllerRef, mounted, probe>>

\* account.getActiveDelegatedStakeBalance() resolves with { total: amount }
StakedResolve(r, amount) ==
    /\ reqs[r].staked = "pending"
    /\ Join(r, [reqs[r] EXCEPT !.staked = "ok", !.stakedBalance = Some(amount)])
    /\ UNCHANGED <<accountId, abortControllerRef, mounted, probe>>

\* account.getActiveDelegatedStakeBalance() rejects with e: Promise.all
\* rejects with it
StakedReject(r, e) ==
    /\ reqs[r].staked = "pending"
    /\ FetchRejects(r, reqs[r], e)
    /\ UNCHANGED <<accountId, abortControllerRef, mounted, probe>>

\* a plausible slip: the timeout promise is left out of the race
TimerNeverFires(r) == FALSE

\* the setTimeout callback of createTimeoutPromise runs
TimerFire(r) ==
    /\ reqs[r].timer = "pending"
    /\ Catch(r, [reqs[r] EXCEPT !.timer = "fired"], Error(TimeoutErrorMessage), TRUE)
    /\ UNCHANGED <<accountId, abortControllerRef, mounted, probe>>

Next ==
    \/ \E value \in Inputs : HandleInputChange(value)
    \/ HandleFetchBalance
    \/ Unmount
    \/ \E r \in DOMAIN reqs : ConnectResolve(r)
    \/ \E r \in DOMAIN reqs, e \in Failures : ConnectReject(r, e)
    \/ \E r \in DOMAIN reqs, amount \in LiquidAmounts : LiquidResolve(r, amount)
    \/ \E r \in DOMAIN reqs, e \in Failures : LiquidReject(r, e)
    \/ \E r \in DOMAIN reqs, amount \in StakedAmounts : StakedResolve(r, amount)
    \/ \E r \in DOMAIN reqs, e \in Failures : StakedReject(r, e)
    \/ \E r \in DOMAIN reqs : TimerFire(r)

Spec == Init /\ [][Next]_vars

\* the event loop runs the callback of every timer that stays pending: a
\* setTimeout that is not cleared fires; the network owes no answer
SpecFair ==
    Spec /\ \A r \in 1..MaxRequests : WF_vars(r \in DOMAIN reqs /\ TimerFire(r))

-----------------------------------------------------------------------------
(* Properties of the request lifecycle, checked under Spec *)

\* the request awaits Promise.race and its cancellation token is untriggered
Live(r) == reqs[r].handler = "race" /\ ~reqs[r].aborted

Terminal == {"Succeeded", "Failed", "TimedOut", "Cancelled"}

FetchPending(rq) == rq.fetch \in {"connect", "join"}

\* C1: once the cancellation token of a request has been triggered (by a
\* newer submission or by teardown), no step of that request (its fetch
\* succeeding or failing, its timer firing) changes balanceData,
\* fetchedAccountId, error or loading, and the 'Request cancelled' failure of
\* a checkpoint is never shown.
C1_CancelledNeverUpdatesDisplay ==
    /\ [](error # Some(MsgOther(CancelledErrorMessage)))
    /\ [][\A r \in DOMAIN reqs :
            (reqs[r].aborted /\ reqs'[r] # reqs[r]) => UNCHANGED display]_vars

\* two cancelled requests have settled after their cancellation: the
\* superseded one by its timer, the torn-down one by a checkpoint's failure
C1_Witness ==
    \E r1, r2 \in DOMAIN reqs :
        /\ r1 < r2
        /\ ~mounted
        /\ reqs[r1].state = "Cancelled" /\ reqs[r1].timer = "fired"
        /\ reqs[r2].state = "Cancelled" /\ reqs[r2].fetch = "cancelled"
        /\ loading

\* C2: every timer is the 30 000 ms one; when the timer of a request that is
\* not cancelled fires, the error shown is exactly the timeout message, and
\* the later settling of that request's fetch changes neither error nor
\* balanceData.
C2_TimeoutWinsTheRace ==
    /\ [](\A r \in DOMAIN reqs : reqs[r].timeoutMs = 30000)
    /\ [][\A r \in DOMAIN reqs :
            /\ (reqs[r].timer = "pending" /\ reqs'[r].timer = "fired"
                    /\ ~reqs[r].aborted)
               => /\ error' = Some("Request timed out. The network may be slow. Please try again.")
                  /\ reqs'[r].state = "TimedOut"
                  /\ FetchPending(reqs'[r])
            /\ (reqs[r].state = "TimedOut" /\ FetchPending(reqs[r])
                    /\ ~FetchPending(reqs'[r]))
               => UNCHANGED <<error, balanceData>>]_vars

\* the fetch of a timed-out request has resolved afterwards, and the timeout
\* message is still shown with no balance
C2_Witness ==
    \E r \in DOMAIN reqs :
        /\ reqs[r].state = "TimedOut"
        /\ reqs[r].fetch = "resolved"
        /\ error = Some(MsgTimeout)
        /\ balanceData = None

\* C3: at most one request is live, it is the one in the current-request
\* slot, and every request started before the latest one has had its token
\* triggered (the previous token is triggered when the next request is made).
C3_AtMostOneLive ==
    /\ Cardinality({r \in DOMAIN reqs : Live(r)}) <= 1
    /\ \A r \in DOMAIN reqs : Live(r) => abortControllerRef = r
    /\ \A r \in DOMAIN reqs : r < Len(reqs) => reqs[r].aborted

\* a superseded request still awaits its race while its successor is live
C3_Witness ==
    /\ Len(reqs) >= 2
    /\ reqs[Len(reqs) - 1].handler = "race"
    /\ reqs[Len(reqs) - 1].aborted
    /\ Live(Len(reqs))

\* C4: a request in a terminal state (Succeeded, Failed, TimedOut, Cancelled)
\* has no pending timeout timer; in particular none is pending after teardown.
\* The cleanup and the supersession only call abort(): the timer stays pending
\* until the race settles.
C4_NoPendingTimerWhenTerminal ==
    \A r \in DOMAIN reqs : reqs[r].state \in Terminal => reqs[r].timer # "pending"

\* the texts of the input field that the validator rejects
Rejected == {value \in Inputs \cup {""} : validateAccountId(value) # None}

\* C5: a submission the validator rejects sets error to the validator's
\* message and does nothing else: no request (controller, timer, connection,
\* sub-query) is created and the current-request slot is untouched.
C5_InvalidSubmissionDoesNoIO ==
    [][(accountId \in Rejected /\ HandleFetchBalance)
        => /\ error' = validateAccountId(accountId)
           /\ error' \in {Some(MsgEmptyId), Some(MsgInvalidId)}
           /\ reqs' = reqs
           /\ abortControllerRef' = abortControllerRef
           /\ UNCHANGED <<balanceData, fetchedAccountId, loading>>]_vars

\* not_a_valid_id!! was submitted: its message is shown and nothing was started
C5_Witness ==
    /\ accountId = "not_a_valid_id!!"
    /\ error = Some(MsgInvalidId)
    /\ reqs = <<>>
    /\ abortControllerRef = 0

\* C8: when a network call of a request that is neither cancelled nor timed
\* out rejects with the failure of the exhausted provider pool (the one whose
\* message holds 'Exceeded 3 providers'), the message shown is the
\* all-providers-exhausted one, not the network-error one.
C8_ExhaustedProvidersMessage ==
    [][\A r \in DOMAIN reqs :
        (/\ Live(r)
         /\ \/ ConnectReject(r, ErrProvidersExhausted)
            \/ LiquidReject(r, ErrProvidersExhausted)
            \/ StakedReject(r, ErrProvidersExhausted))
        => /\ error' = Some("All RPC providers failed. The NEAR network may be experiencing issues. Please try again later.")
           /\ error' # Some(MsgNetwork)
           /\ reqs'[r].state = "Failed"
           /\ ~loading']_vars

\* a request has failed with the exhausted-providers message shown
C8_Witness ==
    \E r \in DOMAIN reqs :
        /\ reqs[r].state = "Failed"
        /\ reqs[r].fetch = "rejected"
        /\ error = Some(MsgExhausted)
        /\ ~loading

\* C13: the two sub-queries form a join. The fetch resolves, and the balance
\* record is made, only in the step that delivers the second of the two
\* amounts (whichever of the two it is), never while one is outstanding; a
\* step of a request in which one of its sub-queries fails is taken while the
\* join is awaited and makes the fetch fail with that failure (it is the one
\* classified and shown for a live request), and no balance record is made.
C13_JoinOfSubQueries ==
    /\ [](\A r \in DOMAIN reqs :
            reqs[r].fetch = "resolved" \/ ~(reqs[r].liquid = "ok" /\ reqs[r].staked = "ok"))
    /\ [][/\ \A r \in DOMAIN reqs :
               /\ (reqs[r].fetch # "resolved" /\ reqs'[r].fetch = "resolved")
                  => /\ reqs[r].fetch = "join"
                     /\ \/ reqs[r].liquid = "ok" /\ reqs[r].staked = "pending"
                        \/ reqs[r].liquid = "pending" /\ reqs[r].staked = "ok"
               /\ \A e \in Failures :
                     (reqs'[r] # reqs[r] /\ (LiquidReject(r, e) \/ StakedReject(r, e)))
                     => /\ reqs[r].fetch = "join"
                        /\ reqs'[r].fetch = "rejected"
                        /\ balanceData' = balanceData
                        /\ Live(r) => /\ error' = Some(ClassifyError(e, reqs[r].trimmedAccountId))
                                       /\ balanceData' = None
                                       /\ reqs'[r].state = "Failed"
          /\ (balanceData' # balanceData /\ balanceData' # None)
               => \E r \in DOMAIN reqs :
                     reqs[r].fetch = "join" /\ reqs'[r].fetch = "resolved"]_vars

\* both sub-queries of a request have answered and the record of the two
\* amounts is shown
C13_Witness ==
    \E r \in DOMAIN reqs :
        /\ reqs[r].state = "Succeeded"
        /\ reqs[r].fetch = "resolved"
        /\ balanceData = Some(BalanceRecord("1000000000000000000000000",
                                            "500000000000000000000000"))

\* C14: a request whose token is triggered while it awaits its provider
\* handle never launches a sub-query: at the second checkpoint its fetch
\* fails instead; and the fetch of a request whose token is triggered at any
\* point before the join has completed never resolves with a balance record.
\* A settled fetch stays as it is.
C14_Checkpoints ==
    [][\A r \in DOMAIN reqs :
        /\ (reqs[r].aborted /\ reqs[r].fetch = "connect")
           => /\ reqs'[r].fetch \in {"connect", "cancelled", "rejected"}
              /\ reqs'[r].liquid = "idle" /\ reqs'[r].staked = "idle"
        /\ (reqs[r].aborted /\ FetchPending(reqs[r]))
           => reqs'[r].fetch # "resolved"
        /\ ~FetchPending(reqs[r])
           => /\ reqs'[r].fetch = reqs[r].fetch
              /\ reqs'[r].liquid = "idle" /\ reqs'[r].staked = "idle"]_vars

\* a superseded request was stopped at the second checkpoint and its
\* successor, cancelled by the teardown during the join, at the third
C14_Witness ==
    \E r1, r2 \in DOMAIN reqs :
        /\ r1 < r2
        /\ reqs[r1].thrownAt = 138 /\ reqs[r1].fetch = "cancelled"
        /\ reqs[r2].thrownAt = 149 /\ reqs[r2].fetch = "cancelled"
        /\ balanceData = None

\* C15: every started request eventually is in one of the terminal states
\* Succeeded, Failed, Cancelled, TimedOut, with no answer of the network
\* required (the timer fires); a request in a terminal state stays in it; and
\* a Running request leaves Running exactly in the step of the first of its
\* events, for the state of that event: the timer firing (TimedOut), the fetch
\* resolving (Succeeded) or failing (Failed), the token being triggered
\* (Cancelled).
C15_ReachesOneTerminalState ==
    /\ \A r \in 1..MaxRequests :
          [](r \in DOMAIN reqs => <>(r \in DOMAIN reqs /\ reqs[r].state \in Terminal))
    /\ [][\A r \in DOMAIN reqs :
            /\ reqs[r].state \in Terminal => reqs'[r].state = reqs[r].state
            /\ reqs[r].state = "Running" =>
                  LET fired     == reqs[r].timer = "pending" /\ reqs'[r].timer = "fired"
                      resolved  == FetchPending(reqs[r]) /\ reqs'[r].fetch = "resolved"
                      failed    == FetchPending(reqs[r]) /\ reqs'[r].fetch = "rejected"
                      cancelled == ~reqs[r].aborted /\ reqs'[r].aborted
                  IN  /\ Live(r)
                      /\ Cardinality({k \in 1..4 :
                             <<fired, resolved, failed, cancelled>>[k]}) <= 1
                      /\ reqs'[r].state =
                            IF fired THEN "TimedOut"
                            ELSE IF resolved THEN "Succeeded"
                            ELSE IF failed THEN "Failed"
                            ELSE IF cancelled THEN "Cancelled"
                            ELSE "Running"]_vars

\* the network never answered a request and its timer ended it
C15_Witness ==
    \E r \in DOMAIN reqs :
        /\ reqs[r].state = "TimedOut"
        /\ reqs[r].fetch = "connect"
        /\ reqs[r].timer = "fired"
        /\ ~loading

\* C17: while the component is mounted, loading is true exactly when a
\* request is live and Running. The step that starts a request leaves loading
\* true; a step of a request whose token is triggered (a superseded one
\* completing) leaves loading as it is; the step that takes the live request
\* to Succeeded, Failed or TimedOut leaves loading false.
C17_LoadingIffLiveRequest ==
    /\ [](mounted =>
            (loading <=> \E r \in DOMAIN reqs : Live(r) /\ reqs[r].state = "Running"))
    /\ [][/\ Len(reqs') > Len(reqs) => loading'
          /\ \A r \in DOMAIN reqs :
               /\ (reqs[r].aborted /\ reqs'[r] # reqs[r]) => loading' = loading
               /\ (Live(r) /\ reqs'[r].state \in {"Succeeded", "Failed", "TimedOut"})
                  => ~loading']_vars

\* a superseded request has completed while its successor is still live:
\* loading is still true
C17_Witness ==
    /\ mounted
    /\ Len(reqs) = 2
    /\ reqs[1].state = "Cancelled" /\ reqs[1].handler = "done"
    /\ Live(2) /\ reqs[2].state = "Running"
    /\ loading

\* the record made of the amounts of rq, amount being the one still awaited
RecordWith(rq, amount) ==
    BalanceRecord(IF rq.liquid = "ok" THEN rq.liquidBalance[1] ELSE amount,
                  IF rq.staked = "ok" THEN rq.stakedBalance[1] ELSE amount)

\* C18: balanceData and fetchedAccountId are both absent or both present;
\* when present, the latest request has succeeded, fetchedAccountId is its
\* trimmed identifier and balanceData was set, in the step that completed
\* its join, to the record of its two amounts; the step that starts a request
\* for the trimmed text of the input clears both, and no balance is shown
\* while loading is true.
C18_DisplayedBalanceIsLatest ==
    /\ [](/\ balanceData = None <=> fetchedAccountId = None
          /\ balanceData # None =>
                /\ reqs # <<>>
                /\ reqs[Len(reqs)].state = "Succeeded"
                /\ fetchedAccountId = Some(reqs[Len(reqs)].trimmedAccountId)
          /\ loading => balanceData = None)
    /\ [][/\ Len(reqs') > Len(reqs) =>
               /\ balanceData' = None /\ fetchedAccountId' = None
               /\ reqs'[Len(reqs')].trimmedAccountId = Trim(accountId)
          /\ (balanceData' # balanceData /\ balanceData' # None) =>
               /\ reqs # <<>>
               /\ Live(Len(reqs))
               /\ reqs[Len(reqs)].fetch = "join"
               /\ reqs'[Len(reqs)].fetch = "resolved"
               /\ \E amount \in Amounts :
                     balanceData' = Some(RecordWith(reqs[Len(reqs)], amount))]_vars

\* a second request, for the text " Bob.testnet ", has replaced the result of
\* the first by its own
C18_Witness ==
    /\ Len(reqs) = 2
    /\ reqs[1].state = "Succeeded"
    /\ reqs[2].state = "Succeeded"
    /\ accountId = " Bob.testnet "
    /\ fetchedAccountId = Some("Bob.testnet")
    /\ balanceData # None
    /\ ~loading

\* the messages of the validator
ValidatorMessages == {Some(MsgEmptyId), Some(MsgInvalidId)}

\* C19: a submission the validator rejects changes error and nothing else:
\* balanceData, fetchedAccountId, loading, the current-request slot, the text
\* of the input and every request are as before, so a request that is live
\* stays live; and while the validator's message is shown, the live request
\* whose join completes still shows its record and identifier and ends the
\* loading.
C19_RejectedSubmissionFrame ==
    [][/\ (accountId \in Rejected /\ HandleFetchBalance)
          => /\ UNCHANGED <<accountId, balanceData, fetchedAccountId, loading,
                            abortControllerRef, mounted>>
             /\ \A r \in DOMAIN reqs :
                   /\ r \in DOMAIN reqs'
                   /\ reqs'[r] = reqs[r]
                   /\ Live(r) => Live(r)'
       /\ \A r \in DOMAIN reqs :
             (/\ Live(r) /\ error \in ValidatorMessages
              /\ reqs[r].fetch = "join" /\ reqs'[r].fetch = "resolved")
             => /\ balanceData' # None
                /\ fetchedAccountId' = Some(reqs[r].trimmedAccountId)
                /\ ~loading'
                /\ reqs'[r].state = "Succeeded"]_vars

\* a submission was rejected while a request was Running: the request is
\* still live, with the validator's message shown
C19_Witness ==
    \E r \in DOMAIN reqs :
        /\ Live(r) /\ reqs[r].state = "Running"
        /\ abortControllerRef = r
        /\ loading
        /\ accountId \in Rejected
        /\ error = Some(MsgInvalidId)

\* the request that was Running when a submission was rejected has completed
\* afterwards and its result is shown next to the validator's message
C19_CompletedAfterwards ==
    \E r \in DOMAIN reqs :
        /\ reqs[r].state = "Succeeded"
        /\ balanceData # None
        /\ error = Some(MsgInvalidId)
        /\ ~loading

-----------------------------------------------------------------------------
(* The conversion on its own: SpecConvert draws the two raw amounts and     *)
(* applies lines 153-167 to them.                                          *)

RECURSIVE Repeat(_, _)
Repeat(c, n) == IF n = 0 THEN "" ELSE c \o Repeat(c, n - 1)

\* raw amounts: 0, 1, one NEAR and half a NEAR in yoctoNEAR, the neighbours of
\* 2^63 and 2^64, and runs of one digit up to MaxDigits digits
RawAmounts ==
    {"0", "1", "1000000000000000000000000", "500000000000000000000000",
     "9223372036854775807", "9223372036854775808", "18446744073709551615"}
    \cup { Repeat(c, n) : c \in {"1", "5", "9"}, n \in 1..MaxDigits }

\* the component as mounted, before any event
Mounted ==
    /\ accountId = ""
    /\ balanceData = None
    /\ fetchedAccountId = None
    /\ loading = FALSE
    /\ error = None
    /\ abortControllerRef = 0
    /\ mounted = TRUE
    /\ reqs = <<>>

ConvertInit ==
    /\ Mounted
    /\ probe \in { [availableBalance |-> a, stakedBalance |-> s, result |-> None] :
                   a \in RawAmounts, s \in RawAmounts }

\* lines 153-167 applied to the two raw amounts
ConvertApply ==
    /\ probe.result = None
    /\ probe' = [probe EXCEPT !.result =
                    Some(BalanceRecord(probe.availableBalance, probe.stakedBalance))]
    /\ UNCHANGED <<accountId, balanceData, fetchedAccountId, loading, error,
                   abortControllerRef, mounted, reqs>>

SpecConvert == ConvertInit /\ [][ConvertApply]_vars

\* the value of a decimal string modulo p, by Horner's rule
RECURSIVE Residue(_, _, _, _)
Residue(str, i, acc, p) ==
    IF i > Len(str) THEN acc
    ELSE Residue(str, i + 1, (acc * 10 + DigitValue[CharAt(str, i)]) % p, p)

\* pairwise distinct primes whose product exceeds 10^35: two naturals below
\* 10^35 with the same residues modulo all of them are equal
Primes == {997, 991, 983, 977, 971, 967, 953, 947, 941, 937, 929, 919}

\* a decimal numeral without a sign and without leading zeros
Numeral(str) ==
    /\ Len(str) >= 1
    /\ \A i \in 1..Len(str) : CharAt(str, i) \in DigitChars
    /\ Len(str) > 1 => CharAt(str, 1) # "0"

Longer(a, b) == IF Len(a) >= Len(b) THEN Len(a) ELSE Len(b)

\* t is the numeral of a + s: it is a numeral no longer than the sum can be
\* and it agrees with a + s modulo every prime of Primes
IsSumOf(t, a, s) ==
    /\ Numeral(t)
    /\ Len(t) <= Longer(a, s) + 1
    /\ Longer(a, s) + 1 < 35
    /\ \A p \in Primes :
          Residue(t, 1, 0, p) = (Residue(a, 1, 0, p) + Residue(s, 1, 0, p)) % p

\* C6: the amount handed to the formatter for the total is exactly the sum
\* of the two raw amounts, as integers of any size (also past 2^63).
C6_TotalIsExactSum ==
    probe.result # None =>
        /\ probe.result[1].total.fn = "formatNearAmount"
        /\ IsSumOf(probe.result[1].total.balance,
                   probe.availableBalance, probe.stakedBalance)

\* 2^63 + 2^63: the total handed to the formatter is 2^64
C6_Witness ==
    /\ probe.availableBalance = "9223372036854775808"
    /\ probe.stakedBalance = "9223372036854775808"
    /\ probe.result # None
    /\ probe.result[1].total.balance = "18446744073709551616"

-----------------------------------------------------------------------------
(* The validator on its own: SpecValidate types an identifier piece by      *)
(* piece and applies validateAccountId to it.                              *)

\* what is typed (or pasted) in one step
Pieces == {"a", "B-", "0_", ".", ".near", ".TestNet", "near", " ", "!"}

ValidateInit ==
    /\ Mounted
    /\ probe = [id |-> "", pieces |-> 0, validated |-> FALSE, validationError |-> None]

\* the text of the input field grows by one piece
ValidateType(piece) ==
    /\ probe.pieces < MaxPieces
    /\ probe' = [id |-> probe.id \o piece, pieces |-> probe.pieces + 1,
                 validated |-> FALSE, validationError |-> None]
    /\ UNCHANGED <<accountId, balanceData, fetchedAccountId, loading, error,
                   abortControllerRef, mounted, reqs>>

\* const validationError = validateAccountId(accountId)
ValidateApply ==
    /\ ~probe.validated
    /\ probe' = [probe EXCEPT !.validated = TRUE,
                              !.validationError = validateAccountId(probe.id)]
    /\ UNCHANGED <<accountId, balanceData, fetchedAccountId, loading, error,
                   abortControllerRef, mounted, reqs>>

ValidateNext ==
    \/ \E piece \in Pieces : ValidateType(piece)
    \/ ValidateApply

SpecValidate == ValidateInit /\ [][ValidateNext]_vars

\* the labels of a string: its parts between the dots
RECURSIVE Labels(_, _, _)
Labels(str, i, label) ==
    IF i > Len(str) THEN <<label>>
    ELSE IF CharAt(str, i) = "." THEN <<label>> \o Labels(str, i + 1, "")
    ELSE Labels(str, i + 1, label \o CharAt(str, i))

Letters == LowerChars \cup UpperChars

\* a label: one or more letters, digits, hyphens or underscores
IsLabel(str) ==
    /\ Len(str) >= 1
    /\ \A i \in 1..Len(str) : CharAt(str, i) \in Letters \cup DigitChars \cup {"-", "_"}

IsSuffix(str) == ToLowerCase(str) \in {"near", "testnet"}

\* n or more dot-separated labels, the last of them near or testnet
NamedShape(str, n) ==
    LET ls == Labels(str, 1, "") IN
    /\ Len(ls) >= n
    /\ \A i \in 1..Len(ls) : IsLabel(ls[i])
    /\ IsSuffix(ls[Len(ls)])

IsHex(str) ==
    \A i \in 1..Len(str) : CharAt(str, i) \in DigitChars \cup CharsOf("abcdefABCDEF")

ImplicitShape(str) == Len(str) = 64 /\ IsHex(str)

EthereumShape(str) ==
    /\ Len(str) = 42
    /\ SubSeq(str, 1, 2) \in {"0x", "0X"}
    /\ IsHex(SubSeq(str, 3, 42))

Accepted(str) == validateAccountId(str) = None

\* C10 as stated: a trimmed string of one or more labels ending in the label
\* near or testnet is accepted, as is the string uppercased; a string of none
\* of the three shapes gets the message that lists the shapes.
C10_AsStated ==
    probe.validated =>
        LET t == Trim(probe.id) IN
        /\ NamedShape(t, 1) =>
              probe.validationError = None /\ Accepted(ToUpperCase(probe.id))
        /\ ~(ImplicitShape(t) \/ NamedShape(t, 1) \/ EthereumShape(t)) =>
              probe.validationError = Some(MsgInvalidId)

\* C10, amended: a trimmed string of one or more labels followed by the label
\* near or testnet (two labels at least) is accepted, as is the string
\* uppercased; a string that is not empty after trimming and has none of the
\* three shapes gets the message that lists the shapes.
C10_NamedShapeAccepted ==
    probe.validated =>
        LET t == Trim(probe.id) IN
        /\ NamedShape(t, 2) =>
              probe.validationError = None /\ Accepted(ToUpperCase(probe.id))
        /\ (t # "" /\ ~(ImplicitShape(t) \/ NamedShape(t, 2) \/ EthereumShape(t))) =>
              probe.validationError = Some("Please enter a valid NEAR account ID (implicit address, named address like alice.near, or Ethereum-like address like 0x...).")

\* a three-label identifier with mixed case typed between spaces was accepted
C10_Witness ==
    /\ probe.validated
    /\ probe.id = " a.TestNet.near"
    /\ probe.validationError = None

-----------------------------------------------------------------------------
(* The validator on hexadecimal identifiers: SpecValidateHex pastes blocks  *)
(* of hexadecimal characters and applies validateAccountId.                *)

Hex20 == "0123456789abcdefABCD"
Hex19 == "fedcba9876543210FED"
Hex4 == "9aBc"

\* what is pasted in one step: a prefix, blocks of 20, 19, 4 and 1
\* hexadecimal characters, and a letter that is not hexadecimal
HexPieces == {"0x", "0X", Hex20, Hex19, Hex4, "e", "g"}

ValidateHexNext ==
    \/ \E piece \in HexPieces : ValidateType(piece)
    \/ ValidateApply

SpecValidateHex == ValidateInit /\ [][ValidateHexNext]_vars

\* str is 0x followed by n hexadecimal characters
ZeroXThenHex(str, n) ==
    /\ Len(str) = n + 2
    /\ SubSeq(str, 1, 2) = "0x"
    /\ IsHex(SubSeq(str, 3, Len(str)))

\* C11: 0x followed by exactly 40 hexadecimal characters is accepted, 0x
\* followed by 39 or by 41 hexadecimal characters is rejected, and every
\* string of exactly 64 hexadecimal characters is accepted.
C11_HexLengths ==
    probe.validated =>
        /\ ZeroXThenHex(probe.id, 40) => probe.validationError = None
        /\ (ZeroXThenHex(probe.id, 39) \/ ZeroXThenHex(probe.id, 41))
              => probe.validationError # None
        /\ (Len(probe.id) = 64 /\ IsHex(probe.id)) => probe.validationError = None

\* 0x and 41 hexadecimal characters were pasted and rejected
C11_Witness ==
    /\ probe.validated
    /\ probe.id = "0x" \o Hex20 \o Hex20 \o "e"
    /\ probe.validationError = Some(MsgInvalidId)

\* the accepted lengths were pasted too: 0x + 40 and 64 hexadecimal characters
C11_Accepted40 ==
    /\ probe.validated
    /\ probe.id = "0x" \o Hex20 \o Hex20
    /\ probe.validationError = None

C11_Accepted64 ==
    /\ probe.validated
    /\ probe.id = Hex20 \o Hex20 \o Hex20 \o Hex4
    /\ probe.validationError = None

-----------------------------------------------------------------------------
(* The classifier on its own: SpecClassify draws a caught error and the    *)
(* identifier of its request and applies the chain of lines 205-218.       *)

\* error.message of the caught value: absent, empty, the timer's, texts that
\* hold one or several of the words the chain looks for, and texts without
ErrorMessages ==
    {None, Some(""), Some(TimeoutErrorMessage),
     Some("Exceeded 3 providers to execute request"),
     Some("Exceeded 3 providers: fetch failed, network down"),
     Some("Retries Exceeded"),
     Some("Failed to fetch"),
     Some("network unreachable"),
     Some("Network Error"),
     Some("Request timed out."),
     Some("account does not exist while viewing"),
     Some("Unexpected end of JSON input")}

\* error.type of the caught value
ErrorTypes == {None, Some("AccountDoesNotExist"), Some("RetriesExceeded"),
               Some("TimeoutError")}

ClassifyInit ==
    /\ Mounted
    /\ probe \in { [e |-> [message |-> m, type |-> t], trimmedAccountId |-> id,
                    userMessage |-> None] :
                   m \in ErrorMessages, t \in ErrorTypes,
                   id \in {"alice.near", "Bob.testnet"} }

\* the chain of the catch block applied to the caught error
ClassifyApply ==
    /\ probe.userMessage = None
    /\ probe' = [probe EXCEPT !.userMessage =
                    Some(ClassifyError(probe.e, probe.trimmedAccountId))]
    /\ UNCHANGED <<accountId, balanceData, fetchedAccountId, loading, error,
                   abortControllerRef, mounted, reqs>>

SpecClassify == ClassifyInit /\ [][ClassifyApply]_vars

HasText(e, sub) == e.message # None /\ Includes(e.message[1], sub)

\* the table of the classifier: one row per kind of failure, in its order
ClassifierTable(e, id) ==
    << [matches |-> e.message = Some("Request timed out. Please try again."),
        userMessage |-> "Request timed out. The network may be slow. Please try again."],
       [matches |-> e.type = Some("AccountDoesNotExist"),
        userMessage |-> "Account \"" \o id \o "\" does not exist on NEAR mainnet."],
       [matches |-> HasText(e, "Exceeded"),
        userMessage |-> "All RPC providers failed. The NEAR network may be experiencing issues. Please try again later."],
       [matches |-> HasText(e, "network") \/ HasText(e, "fetch"),
        userMessage |-> "Network error. Please check your connection and try again."],
       [matches |-> e.message \notin {None, Some("")},
        userMessage |-> "Error: " \o (IF e.message = None THEN "" ELSE e.message[1])],
       [matches |-> TRUE,
        userMessage |-> "An error occurred while fetching the balance."] >>

\* the message of the first row of the table that matches
FirstMatch(table) ==
    table[CHOOSE k \in DOMAIN table :
             table[k].matches /\ \A j \in 1..(k - 1) : ~table[j].matches].userMessage

\* C16: the classifier gives every failure one message, that of the first
\* matching row in the order timeout, account not found, providers exhausted,
\* network, Error: <message> for another failure with a message, and the
\* default message for a failure without one.
C16_FirstMatchingRow ==
    probe.userMessage # None =>
        probe.userMessage =
            Some(FirstMatch(ClassifierTable(probe.e, probe.trimmedAccountId)))

\* a failure that matches the second, third and fourth row got the message
\* of the second
C16_Witness ==
    /\ probe.e = [message |-> Some("Exceeded 3 providers: fetch failed, network down"),
                  type |-> Some("AccountDoesNotExist")]
    /\ probe.trimmedAccountId = "Bob.testnet"
    /\ probe.userMessage = Some("Account \"Bob.testnet\" does not exist on NEAR mainnet.")

=============================================================================
